---- MODULE Spec2Model ----
(***************************************************************************)
(* Audio Splitter Service (src/main.py): the POST /split handler           *)
(* split_audio, with find_ffmpeg and run_ffmpeg_split, as a state machine. *)
(* Each request slot runs one /split request; a step is one external       *)
(* operation of the handler (a probe of an ffmpeg candidate, the storage   *)
(* download, the workspace set-up, the ffmpeg run, chunk uploads, the      *)
(* return).  The storage backend, the local temporary directories and the  *)
(* external tool are the environment: their outcomes are drawn             *)
(* nondeterministically from what the handler's code distinguishes.        *)
(***************************************************************************)
EXTENDS Integers, Sequences, FiniteSets, TLC

(* ------------------------------ bounds -------------------------------- *)
\* Largest number of chunk files one ffmpeg run produces in Spec.
MaxChunks == 2
\* Number of chunk files of the long recording of SpecLong.
LongChunks == 1001
\* Number of names mkdtemp can draw from.
MaxTmp == 2

Slots == {1, 2}
TmpNames == 1..MaxTmp

(* --------------------------- configuration ---------------------------- *)
BUCKET_DEFAULT == "audio-files"
CHUNK_SECONDS_DEFAULT == 600
FFMPEG_PATH_ENV == ""
PREFIX_DEFAULT == "audio-chunks"
CommonPaths == <<"/usr/bin/ffmpeg", "/usr/local/bin/ffmpeg", "/bin/ffmpeg">>
\* Results of shutil.which("ffmpeg"); "" stands for None.
WhichResults == {"", "/usr/local/bin/ffmpeg"}
\* Mutant: the upload call without upsert.
UploadOptions_no_upsert == [content_type |-> "audio/mp4", upsert |-> "false"]
\* The options dictionary of the upload call.
UploadOptions == [content_type |-> "audio/mp4", upsert |-> "true"]

(* ----------------------------- requests ------------------------------- *)
\* Optional[...] fields of SplitRequest.
None == [some |-> FALSE]
Some(v) == [some |-> TRUE, val |-> v]

TranscriptionIds == {"abc123", "xyz789"}
HttpPaths == {"https://cdn.example.com/meeting.m4a"}
StoragePaths == {"uploads/meeting.m4a", "uploads/missing.m4a"} \cup HttpPaths

SplitRequest(T, P, B, C, O) ==
  [transcriptionId : T, storagePath : P, bucket : B, chunkSeconds : C,
   outputPrefix : O]

\* Requests of the concurrent specification.
Requests ==
  SplitRequest(TranscriptionIds, {"uploads/meeting.m4a", "uploads/missing.m4a"},
               {None}, {None}, {None})
\* Requests of the single-request specification: every field omitted, empty
\* or zero, and supplied.
AllRequests ==
  SplitRequest(TranscriptionIds, StoragePaths,
               {None, Some(""), Some("media")}, {None, Some(0), Some(60)},
               {None, Some(""), Some("out"), Some("out/abc123")})
\* Requests of the long-recording specification.
LongRequests ==
  SplitRequest({"abc123"}, {"uploads/meeting.m4a"}, {None}, {Some(1)}, {None})

\* Python's `x or d` on an Optional[str] and on an Optional[int].
OrStr(x, d) == IF x.some /\ x.val # "" THEN x.val ELSE d
\* Mutant: `x if x is not None else d`.
OrInt_is_not_none(x, d) == IF x.some THEN x.val ELSE d
OrInt(x, d) == IF x.some /\ x.val # 0 THEN x.val ELSE d

(* --------------------------- chunk file names ------------------------- *)
DigitChar == <<"0", "1", "2", "3", "4", "5", "6", "7", "8", "9">>

RECURSIVE Digits(_)
Digits(n) ==
  IF n < 10 THEN <<DigitChar[n + 1]>>
  ELSE Digits(n \div 10) \o <<DigitChar[(n % 10) + 1]>>

RECURSIVE ZeroPad(_, _)
ZeroPad(s, w) == IF Len(s) < w THEN ZeroPad(<<"0">> \o s, w) ELSE s

\* "part_%03d.m4a" % n, as the tokens "part_", one per digit, ".m4a".
FileName(n) == <<"part_">> \o ZeroPad(Digits(n), 3) \o <<".m4a">>

\* Code point of a token's first character.
Ord(tok) ==
  CASE tok = "part_" -> 112
    [] tok = ".m4a" -> 46
    [] OTHER -> 48 + ((CHOOSE k \in 1..10 : DigitChar[k] = tok) - 1)

\* a < b for two strings, compared code point by code point.
RECURSIVE StrLess(_, _)
StrLess(a, b) ==
  IF b = <<>> THEN FALSE
  ELSE IF a = <<>> THEN TRUE
  ELSE IF Ord(Head(a)) # Ord(Head(b)) THEN Ord(Head(a)) < Ord(Head(b))
  ELSE StrLess(Tail(a), Tail(b))

\* The tokens of a name joined into the string p.name.
RECURSIVE NameStr(_)
NameStr(name) == IF name = <<>> THEN "" ELSE Head(name) \o NameStr(Tail(name))

\* sorted(out_dir.glob("part_*.m4a")) of a directory holding n chunk files.
SortedGlob(n) == SortSeq([j \in 1..n |-> FileName(j - 1)], StrLess)

\* Mutant: base_dir without the transcription id.
BaseDir_without_id(prefix, tid) == prefix
\* base_dir and remote_path of the upload loop.
BaseDir(prefix, tid) == prefix \o "/" \o tid
RemotePath(base_dir, p) == base_dir \o "/" \o NameStr(p)

(* ------------------------------- state -------------------------------- *)
VARIABLES
  pc,             \* position of each request in split_audio
  req,            \* the SplitRequest of each slot
  bucket,         \* local bucket
  chunk_seconds,  \* local chunk_seconds
  output_prefix,  \* local output_prefix
  candidates,     \* find_ffmpeg: the candidates not yet tried
  ffmpeg_path,    \* local ffmpeg_path
  dl,             \* local dl: "unset", "None" or "bytes"
  td,             \* name of the request's temporary directory, 0 before it
  parts,          \* local parts: the sorted chunk files
  idx,            \* position of the upload loop in parts
  storage_paths,  \* local storage_paths
  resp,           \* the HTTP response of each slot
  storage,        \* the objects of the storage backend
  tmpfs,          \* the temporary directories of the host
  ext,            \* history: the external operations each request performed
  up_log          \* history: the upload calls each request made, in order

locals == <<req, bucket, chunk_seconds, output_prefix, candidates, ffmpeg_path,
            dl, td, parts, idx, storage_paths>>
vars == <<pc, req, bucket, chunk_seconds, output_prefix, candidates,
          ffmpeg_path, dl, td, parts, idx, storage_paths, resp, storage,
          tmpfs, ext, up_log>>

NoRequest ==
  [transcriptionId |-> "", storagePath |-> "", bucket |-> None,
   chunkSeconds |-> None, outputPrefix |-> None]
NoResponse == [status |-> 0]
NoDir == [exists |-> FALSE, owner |-> 0, writers |-> {}, input |-> FALSE,
          chunks |-> 0]
\* downloads, splits: calls made; tool, chunks: the outcome of the ffmpeg run
\* and the number of chunk files it left; dl_bucket, seconds: the bucket the
\* download used and the segment time ffmpeg was given; overwrites: uploads
\* that replaced an existing object; failed / fatal: an external operation /
\* one other than a candidate probe has failed; late / late_fatal: an
\* external operation ran after such a failure.
NoExt == [downloads |-> 0, splits |-> 0, tool |-> "", chunks |-> -1,
          dl_bucket |-> "", seconds |-> 0, overwrites |-> 0,
          failed |-> FALSE, late |-> FALSE, fatal |-> FALSE,
          late_fatal |-> FALSE]

Object(b, p) == [bucket |-> b, path |-> p]

\* The source recordings the backend holds before any request.
InitialObjects ==
  {Object("audio-files", "uploads/meeting.m4a"),
   Object("media", "uploads/meeting.m4a")}

Init ==
  /\ pc = [r \in Slots |-> "idle"]
  /\ req = [r \in Slots |-> NoRequest]
  /\ bucket = [r \in Slots |-> ""]
  /\ chunk_seconds = [r \in Slots |-> 0]
  /\ output_prefix = [r \in Slots |-> ""]
  /\ candidates = [r \in Slots |-> <<>>]
  /\ ffmpeg_path = [r \in Slots |-> ""]
  /\ dl = [r \in Slots |-> "unset"]
  /\ td = [r \in Slots |-> 0]
  /\ parts = [r \in Slots |-> <<>>]
  /\ idx = [r \in Slots |-> 0]
  /\ storage_paths = [r \in Slots |-> <<>>]
  /\ resp = [r \in Slots |-> NoResponse]
  /\ storage = InitialObjects
  /\ tmpfs = [d \in TmpNames |-> NoDir]
  /\ ext = [r \in Slots |-> NoExt]
  /\ up_log = [r \in Slots |-> <<>>]

(* ------------------------- the environment ---------------------------- *)
\* sb.storage.from_(b).download(p): what the call can give.
BackendDownload(st, b, p) ==
  IF Object(b, p) \in st THEN {"bytes", "raise"} ELSE {"None", "raise"}

\* sb.storage.from_(b).upload(p, fh, opts): what the call can give.
BackendUpload(st, b, p, opts) ==
  IF opts.upsert # "true" /\ Object(b, p) \in st
  THEN {"duplicate"}
  ELSE {"ok", "raise", "None"}

\* tempfile.TemporaryDirectory(): the name mkdtemp picks, one no directory
\* has.  Names are interchangeable; the least free one stands for it.
Mkdtemp(fs) ==
  LET free == {d \in TmpNames : ~fs[d].exists}
  IN  {d \in free : \A e \in free : d <= e}

\* The directory d as request r creates it.
CreateDir(fs, d, r) ==
  [fs EXCEPT ![d] = [exists |-> TRUE, owner |-> r, writers |-> {},
                     input |-> FALSE, chunks |-> 0]]

\* Mutant: the directory is left behind.
Cleanup_skipped(fs, d) == fs
\* TemporaryDirectory.__exit__: the directory and all it holds are removed.
Cleanup(fs, d) == [fs EXCEPT ![d] = NoDir]

\* Mutant: the error is recorded and the handler carries on where it was.
Raise_and_carry_on(r, status, detail) ==
  /\ resp' = [resp EXCEPT ![r] = [status |-> status, detail |-> detail]]
  /\ pc' = pc
\* raise HTTPException(status, detail), or a fault the framework turns
\* into a 500.
Raise(r, status, detail) ==
  /\ resp' = [resp EXCEPT ![r] = [status |-> status, detail |-> detail]]
  /\ pc' = [pc EXCEPT ![r] = "failed"]

(* ------------------------------ actions ------------------------------- *)
\* find_ffmpeg, lines 56-62: the candidate list, given which("ffmpeg").
Candidates(which) ==
  (IF FFMPEG_PATH_ENV # "" THEN <<FFMPEG_PATH_ENV>> ELSE <<>>)
    \o (IF which # "" THEN <<which>> ELSE <<>>)
    \o CommonPaths

\* One external operation of a request enters its history.
Performed(e, kind, ok) ==
  [e EXCEPT !.late = @ \/ e.failed,
            !.late_fatal = @ \/ e.fatal,
            !.failed = @ \/ ~ok,
            !.fatal = @ \/ (~ok /\ kind # "probe")]

\* split_audio, lines 122-128: the request arrives, the optional fields are
\* merged with the defaults and find_ffmpeg builds its candidate list.
Receive(r, q, which) ==
  /\ pc[r] = "idle"
  /\ req' = [req EXCEPT ![r] = q]
  /\ bucket' = [bucket EXCEPT ![r] = OrStr(q.bucket, BUCKET_DEFAULT)]
  /\ chunk_seconds' =
       [chunk_seconds EXCEPT ![r] = OrInt(q.chunkSeconds, CHUNK_SECONDS_DEFAULT)]
  /\ output_prefix' =
       [output_prefix EXCEPT ![r] = OrStr(q.outputPrefix, PREFIX_DEFAULT)]
  /\ candidates' = [candidates EXCEPT ![r] = Candidates(which)]
  /\ pc' = [pc EXCEPT ![r] = "find"]
  /\ UNCHANGED <<ffmpeg_path, dl, td, parts, idx, storage_paths, resp,
                 storage, tmpfs, ext, up_log>>

\* find_ffmpeg, lines 64-71: one turn of the candidate loop.  The candidate
\* is no executable file (line 65) and is passed over; or `c -version` is run
\* and fails (non-zero exit, timeout), and the loop continues with the next
\* candidate; or it succeeds and c is returned.  With no candidate left the
\* RuntimeError of line 71 is raised: split_audio does not catch it and the
\* framework answers 500.
FindFfmpeg(r, out) ==
  /\ pc[r] = "find"
  /\ IF candidates[r] = <<>>
     THEN /\ Raise(r, 500, [kind |-> "Internal Server Error"])
          /\ UNCHANGED <<candidates, ffmpeg_path, ext>>
     ELSE /\ candidates' =
               [candidates EXCEPT ![r] = IF out = "ok" THEN <<>> ELSE Tail(@)]
          /\ ffmpeg_path' =
               [ffmpeg_path EXCEPT ![r] =
                  IF out = "ok" THEN Head(candidates[r]) ELSE @]
          /\ ext' = [ext EXCEPT ![r] =
                       IF out = "not executable" THEN @
                       ELSE Performed(@, "probe", out = "ok")]
          /\ pc' = [pc EXCEPT ![r] = IF out = "ok" THEN "download" ELSE @]
          /\ resp' = resp
  /\ UNCHANGED <<req, bucket, chunk_seconds, output_prefix, dl, td, parts,
                 idx, storage_paths, storage, tmpfs, up_log>>

\* split_audio, lines 130-137: the storage download.
Download(r) ==
  /\ pc[r] = "download"
  /\ \E out \in BackendDownload(storage, bucket[r], req[r].storagePath) :
       /\ ext' = [ext EXCEPT ![r] =
                    [Performed(@, "download", out = "bytes")
                       EXCEPT !.downloads = @ + 1,
                              !.dl_bucket = bucket[r]]]
       /\ CASE out = "raise" ->
                 /\ Raise(r, 500, [kind |-> "Supabase download threw exception"])
                 /\ dl' = dl
            [] out = "None" ->
                 /\ Raise(r, 404, [kind |-> "File not found or access denied",
                                   bucket |-> bucket[r],
                                   path |-> req[r].storagePath])
                 /\ dl' = [dl EXCEPT ![r] = "None"]
            [] OTHER ->
                 /\ dl' = [dl EXCEPT ![r] = "bytes"]
                 /\ pc' = [pc EXCEPT ![r] = "workspace"]
                 /\ resp' = resp
  /\ UNCHANGED <<req, bucket, chunk_seconds, output_prefix, candidates,
                 ffmpeg_path, td, parts, idx, storage_paths, storage, tmpfs,
                 up_log>>

\* split_audio, lines 139-149: the temporary directory is created, the
\* download is written to input.any and the chunks directory is made.  A
\* fault of mkdtemp or mkdir is not caught and becomes a 500; every exit
\* after the directory exists passes through its clean-up.
OpenWorkspace(r) ==
  /\ pc[r] = "workspace"
  /\ \/ /\ Raise(r, 500, [kind |-> "Internal Server Error"])
        /\ UNCHANGED <<td, tmpfs>>
     \/ \E d \in Mkdtemp(tmpfs) :
          LET made == CreateDir(tmpfs, d, r)
              written == [made EXCEPT ![d].writers = @ \cup {r},
                                      ![d].input = TRUE]
          IN  \/ /\ Raise(r, 500, [kind |-> "Failed to write temp input"])
                 /\ tmpfs' = Cleanup(made, d)
                 /\ td' = td
              \/ /\ Raise(r, 500, [kind |-> "Internal Server Error"])
                 /\ tmpfs' = Cleanup(written, d)
                 /\ td' = td
              \/ /\ tmpfs' = written
                 /\ td' = [td EXCEPT ![r] = d]
                 /\ pc' = [pc EXCEPT ![r] = "split"]
                 /\ resp' = resp
  /\ UNCHANGED <<req, bucket, chunk_seconds, output_prefix, candidates,
                 ffmpeg_path, dl, parts, idx, storage_paths, storage, ext,
                 up_log>>

\* Mutant: run_ffmpeg_split without the `if not parts` check.
run_ffmpeg_split_unchecked(out, n) ==
  IF out = "CalledProcessError"
  THEN [error |-> "ffmpeg failed", parts |-> <<>>]
  ELSE IF out = "TimeoutExpired"
  THEN [error |-> "ffmpeg timeout (600s)", parts |-> <<>>]
  ELSE [error |-> "", parts |-> SortedGlob(n)]
\* run_ffmpeg_split, lines 91-103: what the function gives for an outcome of
\* subprocess.run and n chunk files in out_dir (error "" is a normal return).
run_ffmpeg_split(out, n) ==
  IF out = "CalledProcessError"
  THEN [error |-> "ffmpeg failed", parts |-> <<>>]
  ELSE IF out = "TimeoutExpired"
  THEN [error |-> "ffmpeg timeout (600s)", parts |-> <<>>]
  ELSE IF SortedGlob(n) = <<>>
  THEN [error |-> "No chunks produced", parts |-> <<>>]
  ELSE [error |-> "", parts |-> SortedGlob(n)]

\* split_audio, lines 150-153: ffmpeg runs once on the input file and leaves
\* n chunk files in the chunks directory; an error of run_ffmpeg_split
\* becomes a 500.
RunFfmpeg(r, out, n) ==
  /\ pc[r] = "split"
  /\ LET res == run_ffmpeg_split(out, n)
         wrote == [tmpfs EXCEPT ![td[r]].writers = @ \cup {r},
                                ![td[r]].chunks = n]
     IN  /\ ext' = [ext EXCEPT ![r] =
                      [Performed(@, "split", res.error = "")
                         EXCEPT !.splits = @ + 1,
                                !.tool = out,
                                !.seconds = chunk_seconds[r],
                                !.chunks = IF out = "exit 0" THEN n ELSE @]]
         /\ IF res.error # ""
            THEN /\ Raise(r, 500, [kind |-> res.error])
                 /\ tmpfs' = Cleanup(wrote, td[r])
                 /\ UNCHANGED <<parts, idx, storage_paths>>
            ELSE /\ parts' = [parts EXCEPT ![r] = res.parts]
                 /\ idx' = [idx EXCEPT ![r] = 1]
                 /\ storage_paths' = [storage_paths EXCEPT ![r] = <<>>]
                 /\ tmpfs' = wrote
                 /\ pc' = [pc EXCEPT ![r] = "upload"]
                 /\ resp' = resp
  /\ UNCHANGED <<req, bucket, chunk_seconds, output_prefix, candidates,
                 ffmpeg_path, dl, td, storage, up_log>>

\* The number of consecutive loop iterations one step takes: one, or all that
\* are left.
UploadRun(r, rest) == IF rest THEN Len(parts[r]) - idx[r] + 1 ELSE 1

\* split_audio, lines 158-174: m iterations of the upload loop, of which the
\* first m - 1 succeed; the last one succeeds too, or its failure (an
\* exception, a None result) ends the request with a 500 naming the path.
Upload(r, m) ==
  /\ pc[r] = "upload"
  /\ idx[r] <= Len(parts[r])
  /\ LET base_dir == BaseDir(output_prefix[r], req[r].transcriptionId)
         path(j) == RemotePath(base_dir, parts[r][j])
         last == idx[r] + m - 1
         before == {Object(bucket[r], path(j)) : j \in idx[r]..(last - 1)}
         done == [j \in 1..(m - 1) |-> path(idx[r] + j - 1)]
     IN  /\ {j \in idx[r]..(last - 1) :
               "ok" \notin BackendUpload(storage, bucket[r], path(j),
                                         UploadOptions)} = {}
         /\ \E out \in BackendUpload(storage \cup before, bucket[r], path(last),
                                     UploadOptions) :
              /\ up_log' = [up_log EXCEPT ![r] =
                   @ \o [j \in 1..m |->
                           [path |-> path(idx[r] + j - 1),
                            result |-> IF j < m THEN "ok" ELSE out]]]
              /\ ext' = [ext EXCEPT ![r] =
                   [Performed(@, "upload", out = "ok")
                      EXCEPT !.overwrites = @ + Cardinality(
                        {j \in idx[r]..last :
                           /\ j < last \/ out = "ok"
                           /\ Object(bucket[r], path(j)) \in storage})]]
              /\ IF out = "ok"
                 THEN /\ storage' = storage \cup before
                                      \cup {Object(bucket[r], path(last))}
                      /\ storage_paths' = [storage_paths EXCEPT ![r] =
                                             @ \o done \o <<path(last)>>]
                      /\ idx' = [idx EXCEPT ![r] = last + 1]
                      /\ UNCHANGED <<pc, resp, tmpfs>>
                 ELSE /\ storage' = storage \cup before
                      /\ storage_paths' = [storage_paths EXCEPT ![r] = @ \o done]
                      /\ idx' = [idx EXCEPT ![r] = last]
                      /\ Raise(r, 500,
                               [kind |-> IF out = "None"
                                         THEN "Upload returned None"
                                         ELSE "Supabase upload failed",
                                path |-> path(last)])
                      /\ tmpfs' = Cleanup(tmpfs, td[r])
  /\ UNCHANGED <<req, bucket, chunk_seconds, output_prefix, candidates,
                 ffmpeg_path, dl, td, parts>>

\* SplitResponse(parts=storage_paths, bucket=bucket, chunkSeconds=chunk_seconds)
SplitResponse(p, b, c) ==
  [status |-> 200, parts |-> p, bucket |-> b, chunkSeconds |-> c]

\* split_audio, lines 174-181: the loop is over, the with block is left (the
\* workspace is removed) and the response is returned.
Return(r) ==
  /\ pc[r] = "upload"
  /\ idx[r] > Len(parts[r])
  /\ tmpfs' = Cleanup(tmpfs, td[r])
  /\ resp' = [resp EXCEPT ![r] =
                SplitResponse(storage_paths[r], bucket[r], chunk_seconds[r])]
  /\ pc' = [pc EXCEPT ![r] = "done"]
  /\ UNCHANGED <<locals, storage, ext, up_log>>

(* --------------------------- specifications --------------------------- *)
FfmpegOutcomes == {"exit 0", "CalledProcessError", "TimeoutExpired"}

ProbeOutcomes == {"not executable", "fails", "ok"}

\* One step of request r: its request is drawn from Q, the result of
\* which("ffmpeg") from W, the outcome of a candidate's probe from P and the
\* number of chunk files ffmpeg leaves from N.
Step(r, Q, W, P, N) ==
  \/ \E q \in Q, which \in W : Receive(r, q, which)
  \/ \E out \in P : FindFfmpeg(r, out)
  \/ Download(r)
  \/ OpenWorkspace(r)
  \/ \E out \in FfmpegOutcomes, n \in N : RunFfmpeg(r, out, n)
  \/ \E rest \in BOOLEAN : Upload(r, UploadRun(r, rest))
  \/ Return(r)

\* Requests handled concurrently.
Next == \E r \in Slots : Step(r, Requests, {""}, ProbeOutcomes, 0..MaxChunks)
Spec == Init /\ [][Next]_vars

\* One request at a time, every shape of request.
NextOne == Step(1, AllRequests, WhichResults, ProbeOutcomes, 0..MaxChunks)
SpecOne == Init /\ [][NextOne]_vars

\* One request on a recording long enough for LongChunks chunks.
NextLong == Step(1, LongRequests, {""}, {"ok"}, {LongChunks})
SpecLong == Init /\ [][NextLong]_vars

(* ------------------------------ claims -------------------------------- *)
Terminal(r) == pc[r] \in {"done", "failed"}

\* The remote paths request r uploaded successfully, in upload order.
Uploaded(r) ==
  SelectSeq(up_log[r], LAMBDA e : e.result = "ok")

\* The remote path of chunk k (k = 0, 1, ...) of request r, from the
\* request itself: "{outputPrefix}/{transcriptionId}/part_%03d.m4a".
ChunkPath(r, k) ==
  (IF req[r].outputPrefix.some /\ req[r].outputPrefix.val # ""
   THEN req[r].outputPrefix.val ELSE "audio-chunks")
    \o "/" \o req[r].transcriptionId \o "/" \o NameStr(FileName(k))

\* C1: every request that ends with a 200 lists as many parts as the
\* splitter produced chunk files, each part was uploaded successfully during
\* the request, and the parts are in ascending chunk-index order: the j-th
\* entry is the path of chunk j - 1.
C1_PartsFollowChunkOrder ==
  \A r \in Slots :
    resp[r].status = 200 =>
      /\ Len(resp[r].parts) = ext[r].chunks
      /\ \A j \in 1..Len(resp[r].parts) :
           /\ \E k \in 1..Len(up_log[r]) :
                up_log[r][k] = [path |-> resp[r].parts[j], result |-> "ok"]
           /\ resp[r].parts[j] = ChunkPath(r, j - 1)

\* The same statement for recordings of at most 1000 chunks, where
\* "part_%03d" names sort in index order.
PartsFollowChunkOrderUpTo1000 ==
  \A r \in Slots :
    (resp[r].status = 200 /\ ext[r].chunks <= 1000) =>
      /\ Len(resp[r].parts) = ext[r].chunks
      /\ \A j \in 1..Len(resp[r].parts) : resp[r].parts[j] = ChunkPath(r, j - 1)

\* The object the request's storagePath refers to is not in its bucket.
SourceMissing(r) == Object(bucket[r], req[r].storagePath) \notin storage

\* C2: a request whose storagePath refers to an object that is not in the
\* bucket, and that got as far as asking the backend for it, ends with 404
\* and uploads nothing.
C2_MissingSourceIs404 ==
  \A r \in Slots :
    (Terminal(r) /\ ext[r].downloads > 0 /\ SourceMissing(r)) =>
      /\ resp[r].status = 404
      /\ up_log[r] = <<>>

\* The part of C2 the handler keeps: such a request never uploads, and ends
\* with 404 when the backend returns None, with 500 when it raises.
MissingSourceNeverUploads ==
  \A r \in Slots :
    (ext[r].downloads > 0 /\ SourceMissing(r)) =>
      /\ up_log[r] = <<>>
      /\ Terminal(r)
      /\ resp[r].status = IF dl[r] = "None" THEN 404 ELSE 500

\* The external tool step of request r failed: non-zero exit, timeout, or
\* exit 0 with no output file.
ToolFailed(r) ==
  \/ ext[r].tool \in {"CalledProcessError", "TimeoutExpired"}
  \/ ext[r].tool = "exit 0" /\ ext[r].chunks = 0

\* C3: once the tool step of a request has failed, the request has ended
\* with a 500 and has made, and makes, no upload call.
C3_ToolFailureIs500WithoutUpload ==
  \A r \in Slots :
    ToolFailed(r) =>
      /\ pc[r] = "failed"
      /\ resp[r].status = 500
      /\ up_log[r] = <<>>

\* All three kinds of tool failure have happened.
C3_Witness ==
  /\ ext[1].tool = "exit 0" /\ ext[1].chunks = 0 /\ pc[1] = "failed"
  /\ ext[2].tool = "TimeoutExpired" /\ pc[2] = "failed"

\* Request r has a live temporary directory.
HasWorkspace(r) == \E d \in TmpNames : tmpfs[d].exists /\ tmpfs[d].owner = r

\* C4: no request that has ended, with a 200 or with an error, has a live
\* temporary workspace.
C4_NoWorkspaceAfterEnd ==
  \A r \in Slots : Terminal(r) => ~HasWorkspace(r)

\* One request ended with a 200 and one failed in an upload, both after
\* their workspace was created.
C4_Witness ==
  /\ pc[1] = "done" /\ td[1] # 0
  /\ pc[2] = "failed" /\ td[2] # 0 /\ up_log[2] # <<>>

\* A successful response reports the bucket the download and every upload
\* used and the segment time ffmpeg was given.
ReportsUsedValues(r) ==
  /\ resp[r].bucket = ext[r].dl_bucket
  /\ resp[r].chunkSeconds = ext[r].seconds
  /\ \A j \in 1..Len(resp[r].parts) :
       Object(resp[r].bucket, resp[r].parts[j]) \in storage

\* C5 as stated: in a successful response bucket and chunkSeconds are the
\* values used; an omitted bucket, chunkSeconds or outputPrefix gives the
\* default and a supplied value is used unchanged.
C5_SuppliedValueUsedUnchanged ==
  \A r \in Slots :
    resp[r].status = 200 =>
      /\ ReportsUsedValues(r)
      /\ resp[r].bucket =
           IF req[r].bucket.some THEN req[r].bucket.val ELSE "audio-files"
      /\ resp[r].chunkSeconds =
           IF req[r].chunkSeconds.some THEN req[r].chunkSeconds.val ELSE 600
      /\ resp[r].parts[1] =
           (IF req[r].outputPrefix.some THEN req[r].outputPrefix.val
            ELSE "audio-chunks")
             \o "/" \o req[r].transcriptionId \o "/part_000.m4a"

\* C5 amended: an omitted field, an empty string and a 0 give the default;
\* any other supplied value is used unchanged.
C5_DefaultsForOmittedOrEmpty ==
  \A r \in Slots :
    resp[r].status = 200 =>
      /\ ReportsUsedValues(r)
      /\ resp[r].bucket =
           IF ~req[r].bucket.some THEN "audio-files"
           ELSE IF req[r].bucket.val = "" THEN "audio-files"
           ELSE req[r].bucket.val
      /\ resp[r].chunkSeconds =
           IF ~req[r].chunkSeconds.some THEN 600
           ELSE IF req[r].chunkSeconds.val = 0 THEN 600
           ELSE req[r].chunkSeconds.val
      /\ resp[r].parts[1] = ChunkPath(r, 0)

\* A 200 for a request that supplied chunkSeconds 0 and an empty bucket, and
\* a prefix of its own.
C5_Witness ==
  /\ resp[1].status = 200
  /\ req[1].chunkSeconds = Some(0)
  /\ req[1].bucket = Some("")
  /\ req[1].outputPrefix = Some("out")

\* Requests r and s are runs of the same /split: same bucket, prefix and
\* transcriptionId, and the same number of chunks from the same input.
SameSplit(r, s) ==
  /\ r # s
  /\ resp[r].status = 200 /\ resp[s].status = 200
  /\ bucket[r] = bucket[s]
  /\ req[r].outputPrefix = req[s].outputPrefix
  /\ req[r].transcriptionId = req[s].transcriptionId
  /\ req[r].storagePath = req[s].storagePath
  /\ chunk_seconds[r] = chunk_seconds[s]
  /\ ext[r].chunks = ext[s].chunks

\* C6: two successful runs of the same /split write exactly the same remote
\* paths, "{outputPrefix}/{transcriptionId}/part_NNN.m4a"; the backend then
\* holds the objects one run leaves; and no upload is refused because its
\* object exists: at every upload a successful result is possible and no
\* call ended as a duplicate.
C6_RerunOverwritesSamePaths ==
  /\ \A r, s \in Slots :
       SameSplit(r, s) =>
         /\ resp[r].parts = resp[s].parts
         /\ {resp[r].parts[j] : j \in 1..Len(resp[r].parts)} =
              {ChunkPath(r, k) : k \in 0..(ext[r].chunks - 1)}
         /\ storage = InitialObjects \cup
              {Object(bucket[r], resp[r].parts[j]) :
                 j \in 1..Len(resp[r].parts)}
  /\ \A r \in Slots :
       /\ \A k \in 1..Len(up_log[r]) : up_log[r][k].result # "duplicate"
       /\ (pc[r] = "upload" /\ idx[r] <= Len(parts[r])) =>
            "ok" \in BackendUpload(
                       storage, bucket[r],
                       RemotePath(BaseDir(output_prefix[r],
                                          req[r].transcriptionId),
                                  parts[r][idx[r]]),
                       UploadOptions)

\* The second run of a split replaced every object the first run left.
C6_Witness ==
  /\ SameSplit(1, 2)
  /\ Len(resp[2].parts) = 2
  /\ ext[1].overwrites = 0
  /\ ext[2].overwrites = 2

\* C7: a request whose storagePath begins with http:// or https:// never
\* calls the storage download.
C7_UrlSkipsStorageDownload ==
  \A r \in Slots :
    req[r].storagePath \in HttpPaths => ext[r].downloads = 0

\* The objects request r has written to the backend.
Written(r) ==
  {Object(bucket[r], up_log[r][k].path) :
     k \in {k \in 1..Len(up_log[r]) : up_log[r][k].result = "ok"}}

\* Each live directory was written by its owner alone, and two requests
\* never hold the same directory.
OwnWorkspaceOnly ==
  /\ \A d \in TmpNames : tmpfs[d].writers \subseteq {tmpfs[d].owner}
  /\ \A r, s \in Slots :
       (r # s /\ HasWorkspace(r) /\ HasWorkspace(s)) => td[r] # td[s]

\* C8 as stated: each request writes its own workspace only, and no storage
\* object is written by two different requests.
C8_NoObjectWrittenByTwo ==
  /\ OwnWorkspaceOnly
  /\ \A r, s \in Slots : r # s => Written(r) \cap Written(s) = {}

\* The "{outputPrefix}/{transcriptionId}" directory of request r, from the
\* request itself.
ChunkDir(r) ==
  (IF req[r].outputPrefix.some /\ req[r].outputPrefix.val # ""
   THEN req[r].outputPrefix.val ELSE "audio-chunks")
    \o "/" \o req[r].transcriptionId

\* C8 amended: each request writes its own workspace only, and two different
\* requests write the same storage object only when they use the same bucket
\* and the same "{outputPrefix}/{transcriptionId}" directory.
C8_SharedObjectsOnlyInSameDir ==
  /\ OwnWorkspaceOnly
  /\ \A r, s \in Slots :
       (r # s /\ Written(r) \cap Written(s) # {}) =>
         /\ bucket[r] = bucket[s]
         /\ ChunkDir(r) = ChunkDir(s)

\* Two requests in flight, each with its workspace, have written the same
\* object.
C8_Witness ==
  /\ pc[1] = "upload" /\ pc[2] = "upload"
  /\ HasWorkspace(1) /\ HasWorkspace(2)
  /\ Written(1) \cap Written(2) # {}

\* The last upload call of request r failed and ended the request.
UploadFailed(r) ==
  /\ pc[r] = "failed"
  /\ up_log[r] # <<>>
  /\ up_log[r][Len(up_log[r])].result # "ok"

\* C9: when an upload fails, the calls made so far are those of chunks
\* 0, 1, ..., k in this order, one call each, k being the chunk that failed:
\* no chunk after k was uploaded; chunks 0..k-1 succeeded and are still in
\* the backend; the response is a 500 naming the path of chunk k and has no
\* parts.
C9_UploadsAscendUntilFirstFailure ==
  \A r \in Slots :
    UploadFailed(r) =>
      LET n == Len(up_log[r])
      IN  /\ \A j \in 1..n : up_log[r][j].path = ChunkPath(r, j - 1)
          /\ \A j \in 1..(n - 1) :
               /\ up_log[r][j].result = "ok"
               /\ Object(bucket[r], up_log[r][j].path) \in storage
          /\ resp[r].status = 500
          /\ resp[r].detail.path = up_log[r][n].path
          /\ "parts" \notin DOMAIN resp[r]

\* The same statement with the order of the calls being the order of the
\* sorted file list, parts[1], parts[2], ..., whatever chunk each one is.
UploadsFollowSortedListUntilFirstFailure ==
  \A r \in Slots :
    UploadFailed(r) =>
      LET n == Len(up_log[r])
      IN  /\ \A j \in 1..n :
               up_log[r][j].path = ChunkDir(r) \o "/" \o NameStr(parts[r][j])
          /\ \A j \in 1..(n - 1) :
               /\ up_log[r][j].result = "ok"
               /\ Object(bucket[r], up_log[r][j].path) \in storage
          /\ resp[r].status = 500
          /\ resp[r].detail.path = up_log[r][n].path
          /\ "parts" \notin DOMAIN resp[r]

\* No call of the request is made twice.
CalledAtMostOnce(r) ==
  /\ ext[r].downloads <= 1
  /\ ext[r].splits <= 1
  /\ \A j, k \in 1..Len(up_log[r]) :
       j # k => up_log[r][j].path # up_log[r][k].path

\* C10 as stated: the download, the split and each chunk's upload are called
\* at most once, and no external operation of a request runs after one of
\* its external operations has failed.
C10_NothingAfterFirstFailure ==
  \A r \in Slots : CalledAtMostOnce(r) /\ ~ext[r].late

\* C10 amended: the download, the split and each chunk's upload are called
\* at most once, and no external operation runs after a download, a split or
\* an upload of the request has failed (a failed probe of an ffmpeg
\* candidate is followed by the probe of the next one).
C10_NothingAfterFailedTransfer ==
  \A r \in Slots : CalledAtMostOnce(r) /\ ~ext[r].late_fatal

\* A request ended by the failure of its second upload, and one ended by a
\* failed download after a failed candidate probe.
C10_Witness ==
  /\ UploadFailed(1) /\ Len(up_log[1]) = 2 /\ ext[1].fatal
  /\ pc[2] = "failed" /\ ext[2].downloads = 1 /\ ext[2].late /\ ext[2].fatal

====
